---- MODULE Spec2Model ----
(***************************************************************************)
(* A model of pepper, a Portable Executable header reader.                 *)
(*                                                                         *)
(*   src/src/main.rs   Parser::parse_pe, Machine, TryFrom<u16> for         *)
(*                     Machine, Characteristics, PEError                   *)
(*   src/src/utils.rs  read_u8 / read_u16 / read_u32, read_bytes_to_buffer *)
(*   src/src/dos.rs    DosHeader (layout of the first 64 bytes)            *)
(*                                                                         *)
(* The specifications share the variables:                                     *)
(*   Spec         one run of Parser::parse_pe over one input file          *)
(*   SpecReads    Spec's runs, plus read_u8/read_u16/read_u32 applied to   *)
(*                short byte streams                                       *)
(*   SpecMachine  Machine::try_from applied to every u16                   *)
(*   SpecChars    the Characteristics flags over every 16-bit mask         *)
(***************************************************************************)
EXTENDS Integers, Sequences, FiniteSets, TLC

VARIABLES
    file,     \* the input: [exists, len, data], data a sparse byte map
    pos,      \* absolute position of the BufReader's cursor
    pc,       \* the statement parse_pe (or the read harness) is at
    ptr,      \* parse_pe's local `ptr` (-1 before it is read)
    sigbuf,   \* the 4 bytes read_bytes_to_buffer! returned (<<>> before)
    result,   \* what parse_pe produced: Ok, Err(..), a panic, or nothing yet
    ops,      \* the reads and seeks performed so far, in order
    rd,       \* the last read_u8/u16/u32 of the read harness
    raw16,    \* the u16 handed to a decoder
    decoded   \* what the decoder returned

vars == <<file, pos, pc, ptr, sigbuf, result, ops, rd, raw16, decoded>>

(***************************************************************************)
(* Bounds of the input family.                                             *)
(***************************************************************************)
\* bytes the file may hold beyond the 4 bytes at the marker offset
MaxTail == 1
\* largest value of byte 61 of the file (the second byte of e_lfanew)
MaxHigh == 1
\* longest byte stream of the read harness
MaxStream == 5

(***************************************************************************)
(* Bytes and files.  A file is its length and the bytes that are not zero  *)
(* (every offset below len that data does not name holds 0; data names no  *)
(* offset at or beyond len).                                               *)
(***************************************************************************)
Max(a, b) == IF a >= b THEN a ELSE b

ByteAt(f, i) == IF i \in DOMAIN f.data THEN f.data[i] ELSE 0

NoFile == [exists |-> FALSE, len |-> 0, data |-> <<>>]

(***************************************************************************)
(* Results.  PEError has two variants, IoError(io::Error) and              *)
(* InvalidMachineType(u16); a failed assertion is a panic, not a value.    *)
(***************************************************************************)
None == [tag |-> "None", err |-> "-", arg |-> "-"]
Ok(v) == [tag |-> "Ok", err |-> "-", arg |-> v]
Err(e, a) == [tag |-> "Err", err |-> e, arg |-> a]
Panic == [tag |-> "Panic", err |-> "-", arg |-> "assert_eq"]

\* impl From<io::Error> for PEError
IoError(kind) == Err("IoError", kind)

PortableExecutable == "PortableExecutable"

(***************************************************************************)
(* Constants of main.rs.                                                   *)
(***************************************************************************)
DOS_HEADER == [i \in 1..60 |-> 0]
PE_HEADER == <<\h50, \h45, \h00, \h00>>

(***************************************************************************)
(* utils.rs: exact reads.  Read::read_exact fills the whole buffer or      *)
(* fails with ErrorKind::UnexpectedEof, the cursor then being at the end   *)
(* of the data it could read.                                              *)
(***************************************************************************)
\* a read that pads what is missing with zeros and reports success
read_exact_padded(f, p, n) ==
    [ok |-> TRUE,
     bytes |-> [i \in 1..n |-> IF p + i - 1 < f.len THEN ByteAt(f, p + i - 1) ELSE 0],
     pos |-> p + n]

read_exact(f, p, n) ==
    IF p + n <= f.len
    THEN [ok |-> TRUE, bytes |-> [i \in 1..n |-> ByteAt(f, p + i - 1)], pos |-> p + n]
    ELSE [ok |-> FALSE, bytes |-> <<>>, pos |-> Max(p, f.len)]

\* the bytes taken most significant first
RECURSIVE from_be_bytes(_)
from_be_bytes(b) ==
    IF b = <<>> THEN 0 ELSE from_be_bytes(SubSeq(b, 1, Len(b) - 1)) * 256 + b[Len(b)]

RECURSIVE from_le_bytes(_)
from_le_bytes(b) ==
    IF b = <<>> THEN 0 ELSE Head(b) + 256 * from_le_bytes(Tail(b))

read_int(f, p, n) ==
    LET r == read_exact(f, p, n)
    IN  [ok |-> r.ok, value |-> IF r.ok THEN from_le_bytes(r.bytes) ELSE 0, pos |-> r.pos]

read_u8(f, p) == read_int(f, p, 1)
read_u16(f, p) == read_int(f, p, 2)
read_u32(f, p) == read_int(f, p, 4)

read_bytes_to_buffer(f, p, n) == read_exact(f, p, n)

(***************************************************************************)
(* Parser::parse_pe, one action per statement.                             *)
(***************************************************************************)
\* the seek taken from the end of the 60-byte read, not of the header
SeekOffsetFrom60(p) == p - 60

\* the argument of buf.seek_relative
SeekOffset(p) == p - 64

Return(e) ==
    /\ result' = e
    /\ pc' = "done"

\* line 168: BufReader::new(File::open(path)?)
Open ==
    /\ pc = "open"
    /\ ops' = Append(ops, "open")
    /\ IF file.exists
       THEN /\ pc' = "read_dos"
            /\ pos' = 0
            /\ UNCHANGED result
       ELSE /\ Return(IoError("NotFound"))
            /\ UNCHANGED pos
    /\ UNCHANGED <<file, ptr, sigbuf, rd, raw16, decoded>>

\* line 170: buf.read_exact(&mut DOS_HEADER)?
ReadDosHeader ==
    /\ pc = "read_dos"
    /\ ops' = Append(ops, "read_exact")
    /\ LET r == read_exact(file, pos, Len(DOS_HEADER))
       IN  /\ pos' = r.pos
           /\ IF r.ok
              THEN pc' = "read_ptr" /\ UNCHANGED result
              ELSE Return(IoError("UnexpectedEof"))
    /\ UNCHANGED <<file, ptr, sigbuf, rd, raw16, decoded>>

\* line 172: let ptr = read_u32(&mut buf)?
ReadPtr ==
    /\ pc = "read_ptr"
    /\ ops' = Append(ops, "read_u32")
    /\ LET r == read_u32(file, pos)
       IN  /\ pos' = r.pos
           /\ IF r.ok
              THEN pc' = "seek" /\ ptr' = r.value /\ UNCHANGED result
              ELSE Return(IoError("UnexpectedEof")) /\ UNCHANGED ptr
    /\ UNCHANGED <<file, sigbuf, rd, raw16, decoded>>

\* line 175: buf.seek_relative(i64::from(ptr) - 64)?
\* A relative seek to before the start of the file is an InvalidInput error;
\* one past the end succeeds and leaves the failure to the next read.
SeekRelative ==
    /\ pc = "seek"
    /\ ops' = Append(ops, "seek_relative")
    /\ LET target == pos + SeekOffset(ptr)
       IN  IF target >= 0
           THEN pos' = target /\ pc' = "read_sig" /\ UNCHANGED result
           ELSE Return(IoError("InvalidInput")) /\ UNCHANGED pos
    /\ UNCHANGED <<file, ptr, sigbuf, rd, raw16, decoded>>

\* line 176, the macro: read_bytes_to_buffer!(buf, 4)
ReadSignature ==
    /\ pc = "read_sig"
    /\ ops' = Append(ops, "read_bytes")
    /\ LET r == read_bytes_to_buffer(file, pos, 4)
       IN  /\ pos' = r.pos
           /\ IF r.ok
              THEN pc' = "assert" /\ sigbuf' = r.bytes /\ UNCHANGED result
              ELSE Return(IoError("UnexpectedEof")) /\ UNCHANGED sigbuf
    /\ UNCHANGED <<file, ptr, rd, raw16, decoded>>

\* line 176, the assertion, and line 178: Ok(PortableExecutable {})
AssertSignature ==
    /\ pc = "assert"
    /\ ops' = Append(ops, "assert_eq")
    /\ IF sigbuf = PE_HEADER
       THEN Return(Ok(PortableExecutable))
       ELSE Return(Panic)
    /\ UNCHANGED <<file, pos, ptr, sigbuf, rd, raw16, decoded>>

(***************************************************************************)
(* The inputs of parse_pe: a file that may be missing, of any length       *)
(* around the offsets that matter, with two signature bytes, four bytes of *)
(* e_lfanew at 60..63 and a 4-byte marker somewhere; zero elsewhere.       *)
(***************************************************************************)
Signatures == {<<\h4D, \h5A>>, <<\h5A, \h4D>>, <<\h58, \h58>>}
Markers == {<<\h50, \h45, 0, 0>>, <<\h4E, \h45, 0, 0>>, <<\h50, \h45, 0, 1>>}
MarkerOffsets == {\h10, \h38, \h3D, \h40, \h41, \h80, \h110}
LowBytes == {\h10, \h38, \h3D, \h3F, \h40, \h41, \h80}
TopBytes == {0, \h40}

FileData(n, sig, pb, at, mk) ==
    [i \in ({0, 1} \cup (60..63) \cup (at..(at + 3))) \cap (0..(n - 1)) |->
        IF i \in at..(at + 3) THEN mk[i - at + 1]
        ELSE IF i < 2 THEN sig[i + 1]
        ELSE pb[i - 59]]

Lengths(at) == (0..2) \cup (59..65) \cup (at..(at + 4 + MaxTail))

Files ==
    {NoFile} \cup
    { [exists |-> TRUE, len |-> n, data |-> FileData(n, sig, <<b0, b1, 0, b3>>, at, mk)] :
        sig \in Signatures, b0 \in LowBytes, b1 \in 0..MaxHigh, b3 \in TopBytes,
        at \in MarkerOffsets, mk \in Markers,
        n \in UNION {Lengths(a) : a \in MarkerOffsets} }

NoRead == [width |-> 0, start |-> 0, ok |-> TRUE, value |-> 0]

Init ==
    /\ file \in Files
    /\ pos = 0
    /\ pc = "open"
    /\ ptr = -1
    /\ sigbuf = <<>>
    /\ result = None
    /\ ops = <<>>
    /\ rd = NoRead
    /\ raw16 = 0
    /\ decoded = None

Next ==
    \/ Open
    \/ ReadDosHeader
    \/ ReadPtr
    \/ SeekRelative
    \/ ReadSignature
    \/ AssertSignature

Spec == Init /\ [][Next]_vars

(***************************************************************************)
(* utils.rs applied on its own: read_u8, read_u16 and read_u32 over short  *)
(* byte streams, each from wherever the last one left the cursor, until    *)
(* one fails.  Bytes stay below 0x80 so that every u32 fits TLC's integers.*)
(***************************************************************************)
StreamBytes == {\h00, \h01, \h45, \h7F}

Streams ==
    UNION { { [exists |-> TRUE, len |-> n, data |-> d] : d \in [0..(n - 1) -> StreamBytes] } :
            n \in 0..MaxStream }

Read(width, r) ==
    /\ pc = "reads"
    /\ rd.ok
    /\ rd' = [width |-> width, start |-> pos, ok |-> r.ok, value |-> r.value]
    /\ pos' = r.pos
    /\ UNCHANGED <<file, pc, ptr, sigbuf, result, ops, raw16, decoded>>

ReadU8 == Read(1, read_u8(file, pos))
ReadU16 == Read(2, read_u16(file, pos))
ReadU32 == Read(4, read_u32(file, pos))

InitReads ==
    \/ Init
    \/ /\ file \in Streams
       /\ pos = 0
       /\ pc = "reads"
       /\ ptr = -1
       /\ sigbuf = <<>>
       /\ result = None
       /\ ops = <<>>
       /\ rd = NoRead
       /\ raw16 = 0
       /\ decoded = None

NextReads ==
    \/ Next
    \/ ReadU8
    \/ ReadU16
    \/ ReadU32

SpecReads == InitReads /\ [][NextReads]_vars

(***************************************************************************)
(* Machine and TryFrom<u16> for Machine (main.rs).                         *)
(***************************************************************************)
U16 == 0..(2^16 - 1)

\* enum Machine: each variant's discriminant
MachineEnum ==
    [ Unknown |-> \h0, Am33 |-> \h1d3, Amd64 |-> \h8664, Arm |-> \h1c0,
      Arm64 |-> \haa64, Armnt |-> \h1c4, Ebc |-> \hebc, I386 |-> \h14c,
      Ia64 |-> \h200, M32R |-> \h9041, Mips16 |-> \h266, MipsFpu |-> \h366,
      MipsFpu16 |-> \h466, PowerPc |-> \h1f0, PowerPcFp |-> \h1f1,
      R4000 |-> \h166, RiscV32 |-> \h5032, RiscV64 |-> \h5064,
      RiscV128 |-> \h5128, Sh3 |-> \h1a2, Sh3Dsp |-> \h1a3, Sh4 |-> \h1a6,
      Sh5 |-> \h1a8, Thumb |-> \h1c2, WceMipsV2 |-> \h169 ]

Machine == DOMAIN MachineEnum

\* `variant as u16`
MachineAsU16(v) == MachineEnum[v]

\* the arms of try_from's match, in order: pattern, variant
TryFromArms ==
    << <<\h0, "Unknown">>, <<\h1d3, "Am33">>, <<\h8664, "Amd64">>,
       <<\h1c0, "Arm">>, <<\haa64, "Arm64">>, <<\h1c4, "Armnt">>,
       <<\hebc, "Ebc">>, <<\h14c, "I386">>, <<\h200, "Ia64">>,
       <<\h9041, "M32R">>, <<\h266, "Mips16">>, <<\h366, "MipsFpu">>,
       <<\h466, "MipsFpu16">>, <<\h1f0, "PowerPc">>, <<\h1f1, "PowerPcFp">>,
       <<\h166, "R4000">>, <<\h5032, "RiscV32">>, <<\h5064, "RiscV64">>,
       <<\h5128, "RiscV128">>, <<\h1a2, "Sh3">>, <<\h1a3, "Sh3Dsp">>,
       <<\h1a6, "Sh4">>, <<\h1a8, "Sh5">>, <<\h1c2, "Thumb">>,
       <<\h169, "WceMipsV2">> >>

\* a match takes the first arm whose pattern equals the scrutinee
FirstArm(arms, n) ==
    LET hits == {i \in 1..Len(arms) : arms[i][1] = n}
    IN  IF hits = {} THEN 0 ELSE CHOOSE i \in hits : \A j \in hits : i <= j

\* a slip in the table: the Sh3 and Sh3Dsp arms exchanged
try_from_swapped(n) ==
    LET i == FirstArm(TryFromArms, n)
    IN  IF i = 0 THEN Err("InvalidMachineType", n)
        ELSE IF TryFromArms[i][2] = "Sh3" THEN Ok("Sh3Dsp")
        ELSE IF TryFromArms[i][2] = "Sh3Dsp" THEN Ok("Sh3")
        ELSE Ok(TryFromArms[i][2])

\* a lenient wildcard arm: an unlisted code decoded as Machine::Unknown
try_from_lenient(n) ==
    LET i == FirstArm(TryFromArms, n)
    IN  IF i = 0 THEN Ok("Unknown") ELSE Ok(TryFromArms[i][2])

try_from(n) ==
    LET i == FirstArm(TryFromArms, n)
    IN  IF i = 0 THEN Err("InvalidMachineType", n) ELSE Ok(TryFromArms[i][2])

TryFrom ==
    /\ pc = "try_from"
    /\ decoded' = try_from(raw16)
    /\ pc' = "decoded"
    /\ UNCHANGED <<file, pos, ptr, sigbuf, result, ops, rd, raw16>>

InitMachine ==
    /\ raw16 \in U16
    /\ pc = "try_from"
    /\ decoded = None
    /\ file = NoFile
    /\ pos = 0
    /\ ptr = -1
    /\ sigbuf = <<>>
    /\ result = None
    /\ ops = <<>>
    /\ rd = NoRead

NextMachine == TryFrom

SpecMachine == InitMachine /\ [][NextMachine]_vars

(***************************************************************************)
(* Characteristics (main.rs): sixteen flags, each with a discriminant.     *)
(* The source declares the flags and holds no decoder; decoding a mask to  *)
(* the flags whose bit is set, and encoding a flag set back, follow the    *)
(* specification of the Characteristics Decoder.                           *)
(***************************************************************************)
CharacteristicsEnum ==
    [ RelocsStripped |-> \h0001, ExecutableImage |-> \h0002,
      LineNumsStripped |-> \h0004, LocalSymsStripped |-> \h0008,
      AggressiveWsTrim |-> \h0010, LargeAddressAware |-> \h0020,
      Reserved |-> \h0040, BytesReversedLo |-> \h0080,
      Machine32Bit |-> \h0100, DebugStripped |-> \h0200,
      RemovableRunFromSwap |-> \h0400, NetRunFromSwap |-> \h0800,
      System |-> \h1000, Dll |-> \h2000, UpSystemOnly |-> \h4000,
      BytesReversedHi |-> \h8000 ]

Characteristics == DOMAIN CharacteristicsEnum

\* a slip in the enum: Reserved given BytesReversedLo's bit
CharacteristicsAsU16Dup(f) ==
    IF f = "Reserved" THEN \h0080 ELSE CharacteristicsEnum[f]

\* `flag as u16`
CharacteristicsAsU16(f) == CharacteristicsEnum[f]

RECURSIVE BitAnd(_, _)
BitAnd(a, b) ==
    IF a = 0 \/ b = 0 THEN 0
    ELSE (a % 2) * (b % 2) + 2 * BitAnd(a \div 2, b \div 2)

RECURSIVE BitOr(_, _)
BitOr(a, b) ==
    IF a = 0 THEN b
    ELSE IF b = 0 THEN a
    ELSE Max(a % 2, b % 2) + 2 * BitOr(a \div 2, b \div 2)

\* the flags whose bit is set in the mask
decode_characteristics(mask) ==
    {f \in Characteristics : BitAnd(mask, CharacteristicsAsU16(f)) # 0}

\* the mask with the bit of every flag of the set
RECURSIVE encode(_)
encode(flags) ==
    IF flags = {} THEN 0
    ELSE LET f == CHOOSE g \in flags : TRUE
         IN  BitOr(CharacteristicsAsU16(f), encode(flags \ {f}))

DecodeCharacteristics ==
    /\ pc = "decode_characteristics"
    /\ decoded' = Ok(decode_characteristics(raw16))
    /\ pc' = "decoded"
    /\ UNCHANGED <<file, pos, ptr, sigbuf, result, ops, rd, raw16>>

InitChars ==
    /\ raw16 \in U16
    /\ pc = "decode_characteristics"
    /\ decoded = None
    /\ file = NoFile
    /\ pos = 0
    /\ ptr = -1
    /\ sigbuf = <<>>
    /\ result = None
    /\ ops = <<>>
    /\ rd = NoRead

NextChars == DecodeCharacteristics

SpecChars == InitChars /\ [][NextChars]_vars

(***************************************************************************)
(* What the claims speak of, read off the input file itself.               *)
(***************************************************************************)
\* the file holds a whole 64-byte DOS header
HasDosHeader == file.exists /\ file.len >= 64

\* the e_lfanew field of the file: bytes 60..63, least significant first
E_lfanew ==
    ByteAt(file, 60) + ByteAt(file, 61) * 256
        + ByteAt(file, 62) * 65536 + ByteAt(file, 63) * 16777216

\* the 4 bytes at absolute offset e_lfanew exist
SignatureInFile == E_lfanew + 4 <= file.len

\* ... and are 0x50 0x45 0x00 0x00
PeSignatureAt ==
    /\ SignatureInFile
    /\ ByteAt(file, E_lfanew) = 80
    /\ ByteAt(file, E_lfanew + 1) = 69
    /\ ByteAt(file, E_lfanew + 2) = 0
    /\ ByteAt(file, E_lfanew + 3) = 0

\* the first two bytes are "MZ" or "ZM"
DosSignatureValid ==
    /\ file.len >= 2
    /\ \/ ByteAt(file, 0) = 77 /\ ByteAt(file, 1) = 90
       \/ ByteAt(file, 0) = 90 /\ ByteAt(file, 1) = 77

Returned == pc = "done"

\* the spec's error kinds, as values of the orchestrator's result
Truncated == IoError("UnexpectedEof")
InvalidHeaderOffset == Err("InvalidHeaderOffset", "-")
InvalidPeSignature == Err("InvalidPeSignature", "-")
InvalidSignature == Err("InvalidSignature", "-")

\* the orchestrator's state, read off parse_pe's position
State ==
    CASE pc \in {"open", "read_dos", "read_ptr"} -> "Start"
      [] pc \in {"seek", "read_sig", "assert"} -> "DosHeaderRead"
      [] pc = "done" /\ result.tag = "Ok" -> "PeSignatureVerified"
      [] pc = "done" /\ result.tag = "Err" -> "Failed"
      [] OTHER -> "Aborted"

Performed(op) == \E i \in 1..Len(ops) : ops[i] = op

(***************************************************************************)
(* C1: when the file holds a DOS header whose e_lfanew is at least 64 and  *)
(* the 4 bytes at offset e_lfanew are "PE\0\0", parse_pe returns Ok with   *)
(* the cursor at e_lfanew + 4; the cursor is at 64 once e_lfanew is read   *)
(* and the relative seek lands exactly on e_lfanew.                        *)
(***************************************************************************)
C1_SuccessCursor ==
    (HasDosHeader /\ E_lfanew >= 64 /\ PeSignatureAt) =>
        /\ pc = "seek" => pos = 64
        /\ pc \in {"read_sig"} => pos = E_lfanew
        /\ Returned => result = Ok(PortableExecutable) /\ pos = E_lfanew + 4

\* e_lfanew = 0x80 and "PE\0\0" at 0x80: returned Ok with the cursor at 0x84
C1_Witness ==
    /\ HasDosHeader /\ E_lfanew = 128 /\ PeSignatureAt
    /\ Returned /\ result.tag = "Ok" /\ pos = 132

(***************************************************************************)
(* C2: when e_lfanew is less than 64, parsing fails with                   *)
(* InvalidHeaderOffset: it never succeeds and never panics, whatever bytes *)
(* lie at that offset.  Stated for the files that hold the 4 bytes at      *)
(* e_lfanew, where no truncation can come first.                           *)
(***************************************************************************)
C2_BackwardOffsetRejected ==
    (HasDosHeader /\ E_lfanew < 64 /\ SignatureInFile /\ Returned) =>
        result = InvalidHeaderOffset

(***************************************************************************)
(* C3: when the DOS header is readable and the 4 bytes at e_lfanew are not *)
(* "PE\0\0", parsing returns the error value InvalidPeSignature; it does   *)
(* not abort and does not succeed.  Stated for e_lfanew >= 64, where the   *)
(* offset itself is valid.                                                 *)
(***************************************************************************)
C3_BadPeSignatureIsError ==
    (HasDosHeader /\ E_lfanew >= 64 /\ SignatureInFile /\ ~PeSignatureAt /\ Returned) =>
        result = InvalidPeSignature

(***************************************************************************)
(* C4: when the first two bytes are neither "MZ" nor "ZM", parsing fails   *)
(* with InvalidSignature before anything else is read: e_lfanew is not     *)
(* read, no seek is performed and no PE signature is compared.  Stated for *)
(* the files that hold a whole DOS header, where no other error can come   *)
(* first.                                                                  *)
(***************************************************************************)
C4_DosSignatureChecked ==
    (HasDosHeader /\ ~DosSignatureValid) =>
        /\ ~Performed("read_u32")
        /\ ~Performed("seek_relative")
        /\ ~Performed("assert_eq")
        /\ Returned => result = InvalidSignature

(***************************************************************************)
(* C5: when the file is shorter than 64 bytes, or e_lfanew + 4 is beyond   *)
(* its end, parse_pe returns the truncation error (an IoError of kind      *)
(* UnexpectedEof): no panic, no success, no byte taken from beyond the end *)
(* of the file.                                                            *)
(***************************************************************************)
C5_TruncatedIsError ==
    /\ (file.exists /\ (file.len < 64 \/ ~SignatureInFile) /\ Returned) =>
            result = Truncated
    /\ (file.exists /\ (file.len < 64 \/ ~SignatureInFile)) => sigbuf = <<>>
    /\ sigbuf # <<>> => pos <= file.len

\* a whole DOS header, e_lfanew inside the file, e_lfanew + 4 past its end
C5_Witness ==
    /\ Returned /\ result = Truncated
    /\ HasDosHeader /\ E_lfanew >= 64 /\ E_lfanew < file.len /\ ~SignatureInFile

(***************************************************************************)
(* C10: the orchestrator is the state machine Start -> DosHeaderRead ->    *)
(* PeSignatureVerified, with Failed(error) from any non-terminal state:    *)
(* a parse that has stopped is in one of the two terminal states,          *)
(* PeSignatureVerified comes only after the DOS header was read, both      *)
(* terminal states are absorbing and nothing is read after a failure.      *)
(***************************************************************************)
C10_Terminal == State \in {"PeSignatureVerified", "Failed"}

C10_StoppedOnlyInTerminal == C10_Terminal \/ ENABLED Next

C10_Order ==
    /\ State = "DosHeaderRead" => Performed("read_exact") /\ Performed("read_u32")
    /\ State = "PeSignatureVerified" =>
           \E i, j, k \in 1..Len(ops) :
               /\ i < j /\ j < k
               /\ ops[i] = "read_u32" /\ ops[j] = "seek_relative" /\ ops[k] = "assert_eq"

C10_Absorbing == C10_Terminal => (State' = State /\ ops' = ops /\ pos' = pos)

C10_StateMachine ==
    /\ [](C10_StoppedOnlyInTerminal /\ C10_Order)
    /\ [][C10_Absorbing]_vars

(***************************************************************************)
(* C9: read_u8 / read_u16 / read_u32 consume exactly 1 / 2 / 4 bytes from  *)
(* the cursor and return their little-endian value (byte i of the value is *)
(* the i-th byte read); with fewer bytes left they fail and return no      *)
(* value.  In parse_pe, ptr is the little-endian value of bytes 60..63.    *)
(***************************************************************************)
ByteOf(v, i) == (v \div (256 ^ i)) % 256

C9_LittleEndianReads ==
    /\ rd.width # 0 =>
         /\ rd.ok <=> rd.start + rd.width <= file.len
         /\ rd.ok =>
              /\ pos = rd.start + rd.width
              /\ rd.value >= 0 /\ rd.value \div (256 ^ (rd.width - 1)) < 256
              /\ \A i \in 0..(rd.width - 1) :
                     ByteOf(rd.value, i) = ByteAt(file, rd.start + i)
         /\ ~rd.ok => rd.value = 0 /\ pos = file.len
    /\ ptr # -1 =>
         /\ ptr \div (256 ^ 3) < 256
         /\ \A i \in 0..3 : ByteOf(ptr, i) = ByteAt(file, 60 + i)

\* a read_u32 of four distinct-weight bytes after a read_u8
C9_Witness ==
    /\ rd.width = 4 /\ rd.ok /\ rd.start = 1
    /\ ByteAt(file, 1) = 1 /\ ByteAt(file, 2) = 0 /\ ByteAt(file, 4) = 127
    /\ rd.value = 1 + 65536 * ByteAt(file, 3) + 16777216 * 127

(***************************************************************************)
(* C6: for every variant of Machine, try_from of the variant's own         *)
(* discriminant returns that variant; the 25 discriminants are pairwise    *)
(* distinct.                                                               *)
(***************************************************************************)
C6_MachineRoundTrip ==
    /\ Cardinality(Machine) = 25
    /\ \A v, w \in Machine : v # w => MachineAsU16(v) # MachineAsU16(w)
    /\ \A v \in Machine :
           (pc = "decoded" /\ raw16 = MachineAsU16(v)) => decoded = Ok(v)

C6_Witness == pc = "decoded" /\ raw16 = MachineAsU16("Sh3Dsp") /\ decoded = Ok("Sh3Dsp")

(***************************************************************************)
(* C7: for every 16-bit code that is no discriminant of Machine, try_from  *)
(* fails with InvalidMachineType carrying that code; no such code decodes  *)
(* to a variant, and every u16 gets an Ok or an Err.                       *)
(***************************************************************************)
MachineCodes == {MachineAsU16(v) : v \in Machine}

C7_StrictAllowList ==
    pc = "decoded" =>
        /\ decoded.tag \in {"Ok", "Err"}
        /\ raw16 \notin MachineCodes => decoded = Err("InvalidMachineType", raw16)
        /\ decoded.tag = "Ok" => raw16 \in MachineCodes

C7_Witness == pc = "decoded" /\ raw16 = 65535 /\ decoded = Err("InvalidMachineType", 65535)

(***************************************************************************)
(* C8: for every 16-bit mask, encoding the flags decoded from it gives the *)
(* mask back: each flag owns one bit, no two flags share a bit and the 16  *)
(* flags cover the 16 bits, the reserved 0x0040 included.                  *)
(***************************************************************************)
C8_CharacteristicsRoundTrip ==
    pc = "decoded" =>
        /\ encode(decoded.arg) = raw16
        /\ Cardinality(decoded.arg) =
               Cardinality({i \in 0..15 : (raw16 \div (2 ^ i)) % 2 = 1})

\* a mask with the reserved bit and the two end bits
C8_Witness ==
    /\ pc = "decoded" /\ raw16 = 32833
    /\ decoded.arg = {"RelocsStripped", "Reserved", "BytesReversedHi"}

====
